---------------------------- MODULE Spec2Model ----------------------------
(***************************************************************************)
(* hashmyfiles: main.py (orchestrator: generate / verify / CLI dispatch)   *)
(* and database.py (record store on SQLite).                               *)
(*                                                                         *)
(* One program run at a time (pc = "idle" between runs).  A run is cut     *)
(* into steps at the points where the on-disk store can change or where    *)
(* the operator interrupt can leave a different on-disk state:             *)
(* sqlite3.connect (creates the database file when it is absent), the      *)
(* statement with its commit, and the orchestrator's code between two      *)
(* store calls.  The directory tree is changed by the environment between  *)
(* runs only (the tool assumes exclusive access while it runs).            *)
(*                                                                         *)
(* File names are sequences of characters so that str.endswith is a real   *)
(* suffix test; file contents are byte sequences read in BLOCK_SIZE        *)
(* blocks; a digest is the pair <<"sha256", bytes fed to the hasher>>      *)
(* (SHA256 taken as collision free).                                       *)
(***************************************************************************)
EXTENDS Integers, Sequences, FiniteSets, TLC

VARIABLES
    fs,          \* mutable media files: path -> content id (0 = no such file)
    dbFile,      \* hashmyfiles.db: "absent", "empty" (no table), "table"
    rows,        \* rows of table hashes: set of <<path, hash>>
    faults,      \* transient storage failures injected so far
    pc,          \* position of the running program, "idle" when none runs
    mode,        \* "none", "generate", "verify", "usage": the current/last run
    q,           \* the execute_query call in flight and its result
    media_files, \* generate: list returned by find_files_with_extension
    db_hashes,   \* verify: list returned by get_hashes
    idx,         \* loop position in media_files / db_hashes (1-based)
    corrupted,   \* verify: corrupted_files
    okList,      \* verify: paths printed with [OK]
    hashed,      \* paths opened by generate_sha256_hash during the run
    startRows,   \* rows when the run started (history)
    prev,        \* how the run before this one ended (history)
    exitCode,    \* process exit status of the last run, -1 while none/running
    exitKind,    \* "none", "normal", "usage", "crash", "interrupt"
    directory    \* the directory argument of the run (args[1])

vars == <<fs, dbFile, rows, faults, pc, mode, q, media_files, db_hashes, idx,
          corrupted, okList, hashed, startRows, prev, exitCode, exitKind,
          directory>>

-----------------------------------------------------------------------------
(* Bounds of the model *)

\* number of distinct contents a media file can take
NumContents == 2
\* number of transient storage failures (sqlite3.Error raised by the engine
\* for a reason outside the program: I/O error, locked database, ...)
MaxFaults == 2

-----------------------------------------------------------------------------
(* Program constants, main.py lines 37-39 *)

\* ".mp4", ".mkv"
MEDIA_EXTENSIONS == << <<".", "m", "p", "4">>, <<".", "m", "k", "v">> >>

\* 65536 in the source; scaled so that a file spans more than one block
BLOCK_SIZE == 2

\* "hashmyfiles.db"
DB_FILE == <<"h", "a", "s", "h", "m", "y", "f", "i", "l", "e", "s", ".", "d", "b">>

-----------------------------------------------------------------------------
(* The directory tree *)

\* os.path.join(root, file)
join(root, file) == [root |-> root, name |-> file]

\* command-line directory arguments: an existing directory and a path that
\* is not a directory
Dirs == {"d", "nodir"}

isdir(dir_path) == dir_path = "d"

\* media files the environment creates, rewrites and deletes
MutablePaths ==
    { join("d", <<"a", ".", "m", "p", "4">>),
      join("d/sub", <<"c", "l", "i", "p", ".", "m", "k", "v">>) }

\* files that are always there and never match: video.avi, foo.mp4x,
\* clip.MP4, b.txt, and n.txt inside a directory named x.mp4
FixedPaths ==
    { join("d", <<"v", "i", "d", "e", "o", ".", "a", "v", "i">>),
      join("d", <<"f", "o", "o", ".", "m", "p", "4", "x">>),
      join("d", <<"c", "l", "i", "p", ".", "M", "P", "4">>),
      join("d", <<"b", ".", "t", "x", "t">>),
      join("d/x.mp4", <<"n", ".", "t", "x", "t">>) }

DbPath == join("d", DB_FILE)

\* bytes of content k: two blocks, the contents differ in the last byte only
Bytes(k) == <<1, 2, k>>

\* os.path.isfile
isfile(path) ==
    IF path \in MutablePaths THEN fs[path] # 0
    ELSE IF path \in FixedPaths THEN TRUE
    ELSE IF path = DbPath THEN dbFile # "absent"
    ELSE FALSE

\* the bytes open(path, "rb") reads
ReadFile(path) ==
    IF path \in MutablePaths THEN Bytes(fs[path])
    ELSE IF path = DbPath THEN <<7>>
    ELSE Bytes(1)

\* the names of a directory's entries that are files now
Listing(root, names) == SelectSeq(names, LAMBDA n : isfile(join(root, n)))

\* os.walk(dir_path): (root, files_list) of every directory, top down
Walk(dir_path) ==
    IF ~isdir(dir_path) THEN <<>>
    ELSE << <<"d", Listing("d",
                      << <<"a", ".", "m", "p", "4">>,
                         <<"v", "i", "d", "e", "o", ".", "a", "v", "i">>,
                         <<"f", "o", "o", ".", "m", "p", "4", "x">>,
                         <<"c", "l", "i", "p", ".", "M", "P", "4">>,
                         <<"b", ".", "t", "x", "t">>,
                         DB_FILE >>) >>,
            <<"d/sub", Listing("d/sub",
                      << <<"c", "l", "i", "p", ".", "m", "k", "v">> >>) >>,
            <<"d/x.mp4", Listing("d/x.mp4",
                      << <<"n", ".", "t", "x", "t">> >>) >> >>

-----------------------------------------------------------------------------
(* Pure functions of main.py *)

Min(a, b) == IF a < b THEN a ELSE b

\* str.endswith with one suffix
EndsWithOne(s, e) ==
    Len(s) >= Len(e) /\ SubSeq(s, Len(s) - Len(e) + 1, Len(s)) = e

\* mutant: substring test instead of suffix test
endswith_contains(file, extensions) ==
    \E i \in 1..Len(extensions) :
        \E k \in 1..Len(file) :
            k + Len(extensions[i]) - 1 <= Len(file)
            /\ SubSeq(file, k, k + Len(extensions[i]) - 1) = extensions[i]

\* file.endswith(extensions), extensions a tuple (main.py line 56)
endswith(file, extensions) ==
    \E i \in 1..Len(extensions) : EndsWithOne(file, extensions[i])

RECURSIVE FilterFiles(_, _, _, _)
\* the inner loop of find_files_with_extension over one files_list
FilterFiles(root, files_list, extensions, files) ==
    IF files_list = <<>> THEN files
    ELSE LET file == Head(files_list)
         IN FilterFiles(root, Tail(files_list), extensions,
                        IF endswith(file, extensions)
                        THEN Append(files, join(root, file))
                        ELSE files)

RECURSIVE WalkFiles(_, _, _)
WalkFiles(walk, extensions, files) ==
    IF walk = <<>> THEN files
    ELSE WalkFiles(Tail(walk), extensions,
                   FilterFiles(Head(walk)[1], Head(walk)[2], extensions, files))

\* main.py lines 42-58
find_files_with_extension(dir_path, extensions) ==
    WalkFiles(Walk(dir_path), extensions, <<>>)

RECURSIVE ReadBlocks(_, _, _)
\* the loop of line 73-74: read BLOCK_SIZE bytes until b'', update the hasher
ReadBlocks(content, pos, fed) ==
    LET block == SubSeq(content, pos, Min(pos + BLOCK_SIZE - 1, Len(content)))
    IN IF block = <<>> THEN fed
       ELSE ReadBlocks(content, pos + Len(block), fed \o block)

\* main.py lines 61-75
generate_sha256_hash(file_path) ==
    <<"sha256", ReadBlocks(ReadFile(file_path), 1, <<>>)>>


-----------------------------------------------------------------------------
(* database.py *)

NoPath == join("", <<>>)
NoHash == <<>>
NoQuery == [stage |-> "none", kind |-> "none", path |-> NoPath, hash |-> NoHash,
            none |-> TRUE, res |-> <<>>]

\* entry of execute_query(db_file, query, parameters): nothing done yet
Call(kind, path, hash) ==
    [stage |-> "connect", kind |-> kind, path |-> path, hash |-> hash,
     none |-> TRUE, res |-> <<>>]

\* media_file_exist, line 65-66
CallExists(path) == Call("exists", path, NoHash)
\* get_hashes, line 74-75
CallList == Call("list", NoPath, NoHash)
\* add_hash, line 82-83
CallInsert(path, generated_hash) == Call("insert", path, generated_hash)
\* create_new_database, line 90-94
CallCreate == Call("create", NoPath, NoHash)

\* bool(result) of line 67: None and [] are false
Truthy(qq) == ~qq.none /\ qq.res # <<>>

\* the orders in which a SELECT without ORDER BY may return a set of rows
Orders(S) ==
    { s \in [1..Cardinality(S) -> S] :
        \A i, j \in 1..Cardinality(S) : i # j => s[i] # s[j] }

\* the statement raises sqlite3.Error for a reason of its own: the table is
\* missing, or the primary key is already there
StatementFails(kind, path) ==
    \/ kind \in {"exists", "list", "insert"} /\ dbFile # "table"
    \/ kind = "insert" /\ \E r \in rows : r[1] = path

\* the rows a SELECT returns
Selected(kind, path) ==
    IF kind = "exists" THEN { r \in rows : r[1] = path }
    ELSE IF kind = "list" THEN rows
    ELSE {}

\* except sqlite3.Error: print, return None (lines 49-51); the with block
\* rolls back, so the stored rows stay as they were
QueryFailed ==
    /\ q' = [q EXCEPT !.stage = "done", !.none = TRUE, !.res = <<>>]
    /\ UNCHANGED <<dbFile, rows>>

\* sqlite3.connect(db_file), line 36: opens the file, creating it empty when
\* it does not exist
Connect ==
    /\ q.stage = "connect"
    /\ dbFile' = (IF dbFile = "absent" THEN "empty" ELSE dbFile)
    /\ q' = [q EXCEPT !.stage = "exec"]
    /\ UNCHANGED <<fs, rows, faults, pc, mode, media_files, db_hashes, idx,
                   corrupted, okList, hashed, startRows, prev, exitCode,
                   exitKind, directory>>

\* cursor.execute, fetchall for a select, conn.commit, return (lines 37-48)
Execute ==
    /\ q.stage = "exec"
    /\ IF StatementFails(q.kind, q.path)
       THEN QueryFailed
       ELSE /\ dbFile' = (IF q.kind = "create" THEN "table" ELSE dbFile)
            /\ rows' = (IF q.kind = "insert"
                        THEN rows \cup {<<q.path, q.hash>>} ELSE rows)
            /\ \E result \in Orders(Selected(q.kind, q.path)) :
                  q' = [q EXCEPT !.stage = "done",
                                 !.none = (q.kind \notin {"exists", "list"}),
                                 !.res = result]
    /\ UNCHANGED <<fs, faults, pc, mode, media_files, db_hashes, idx, corrupted,
                   okList, hashed, startRows, prev, exitCode, exitKind,
                   directory>>

\* the engine raises sqlite3.Error for a reason outside the program (I/O
\* error, locked or unopenable file), in connect or in the statement
TransientFailure ==
    /\ q.stage \in {"connect", "exec"}
    /\ faults < MaxFaults
    /\ faults' = faults + 1
    /\ QueryFailed
    /\ UNCHANGED <<fs, pc, mode, media_files, db_hashes, idx, corrupted, okList,
                   hashed, startRows, prev, exitCode, exitKind, directory>>

-----------------------------------------------------------------------------
(* main.py: runs *)

\* how the run that just ended looks to the next one
LastRun ==
    IF mode = "generate" /\ exitKind = "normal" /\ exitCode = 0 THEN "gen_ok"
    ELSE IF mode = "generate" /\ exitKind = "interrupt" THEN "gen_int"
    ELSE "other"

\* a fresh process
RunStarts(m, dir) ==
    /\ pc = "idle"
    /\ mode' = m
    /\ directory' = dir
    /\ media_files' = <<>>
    /\ db_hashes' = <<>>
    /\ idx' = 0
    /\ corrupted' = <<>>
    /\ okList' = <<>>
    /\ hashed' = {}
    /\ startRows' = rows
    /\ prev' = LastRun
    /\ UNCHANGED <<fs, dbFile, rows, faults>>

\* sys.exit(code), or the process ending on an uncaught exception
Exit(code, kind) ==
    /\ pc' = "idle"
    /\ q' = NoQuery
    /\ exitCode' = code
    /\ exitKind' = kind

Running(p) ==
    /\ pc' = p
    /\ exitCode' = -1
    /\ exitKind' = "none"

\* main.py lines 154-158 and 168-170: too few arguments or an unknown option
MainUsage ==
    /\ \E nargs \in 0..2, option \in {"-g", "-v", "-x"} :
          nargs < 2 \/ option \notin {"-g", "-v"}
    /\ RunStarts("usage", "")
    /\ Exit(1, "usage")

\* generate, lines 85-92 and 104-106
GenerateStart(dir) ==
    /\ RunStarts("generate", dir)
    /\ IF ~isdir(dir)
       THEN Exit(1, "normal")
       ELSE IF isfile(join(dir, DB_FILE))
            THEN Running("g_walk") /\ q' = NoQuery
            ELSE Running("g_create") /\ q' = CallCreate

\* create_new_database has returned (line 92)
GenAfterCreate ==
    /\ pc = "g_create" /\ q.stage = "done"
    /\ pc' = "g_walk"
    /\ q' = NoQuery
    /\ UNCHANGED <<fs, dbFile, rows, faults, mode, media_files, db_hashes, idx,
                   corrupted, okList, hashed, startRows, prev, exitCode,
                   exitKind, directory>>

\* line 94
GenWalk ==
    /\ pc = "g_walk"
    /\ media_files' = find_files_with_extension(directory, MEDIA_EXTENSIONS)
    /\ idx' = 1
    /\ pc' = "g_loop"
    /\ UNCHANGED <<fs, dbFile, rows, faults, mode, q, db_hashes, corrupted,
                   okList, hashed, startRows, prev, exitCode, exitKind,
                   directory>>

\* line 96-97: next media_file and the call of media_file_exist, or the end
\* of the loop, "Done" and sys.exit(0) (lines 102-103)
GenLoop ==
    /\ pc = "g_loop"
    /\ IF idx > Len(media_files)
       THEN Exit(0, "normal")
       ELSE /\ pc' = "g_exist"
            /\ q' = CallExists(media_files[idx])
            /\ UNCHANGED <<exitCode, exitKind>>
    /\ UNCHANGED <<fs, dbFile, rows, faults, mode, media_files, db_hashes, idx,
                   corrupted, okList, hashed, startRows, prev, directory>>

\* lines 97-100: media_file_exist has returned
GenAfterExist ==
    /\ pc = "g_exist" /\ q.stage = "done"
    /\ LET media_file == media_files[idx] IN
       IF ~Truthy(q)
       THEN /\ hashed' = hashed \cup {media_file}
            /\ q' = CallInsert(media_file, generate_sha256_hash(media_file))
            /\ pc' = "g_insert"
            /\ idx' = idx
       ELSE /\ hashed' = hashed
            /\ q' = NoQuery
            /\ pc' = "g_loop"
            /\ idx' = idx + 1
    /\ UNCHANGED <<fs, dbFile, rows, faults, mode, media_files, db_hashes,
                   corrupted, okList, startRows, prev, exitCode, exitKind,
                   directory>>

\* line 100: add_hash has returned
GenAfterInsert ==
    /\ pc = "g_insert" /\ q.stage = "done"
    /\ q' = NoQuery
    /\ pc' = "g_loop"
    /\ idx' = idx + 1
    /\ UNCHANGED <<fs, dbFile, rows, faults, mode, media_files, db_hashes,
                   corrupted, okList, hashed, startRows, prev, exitCode,
                   exitKind, directory>>

\* "File not found", the third field of a corrupted entry of line 129
NotFound == <<"File not found">>

\* verify, lines 116-123
VerifyStart(dir) ==
    /\ RunStarts("verify", dir)
    /\ IF ~isfile(join(dir, DB_FILE))
       THEN Exit(1, "normal")
       ELSE Running("v_get") /\ q' = CallList

\* lines 123-126: get_hashes has returned; iterating None raises TypeError,
\* which nothing catches: traceback, exit status 1
VerifyAfterGet ==
    /\ pc = "v_get" /\ q.stage = "done"
    /\ IF q.none
       THEN /\ Exit(1, "crash")
            /\ UNCHANGED <<db_hashes, idx>>
       ELSE /\ db_hashes' = q.res
            /\ idx' = 1
            /\ pc' = "v_loop"
            /\ q' = NoQuery
            /\ UNCHANGED <<exitCode, exitKind>>
    /\ UNCHANGED <<fs, dbFile, rows, faults, mode, media_files, corrupted,
                   okList, hashed, startRows, prev, directory>>

\* mutant: expected and actual hash change places in the corrupted entry
VerifyRecord_swapped ==
    /\ pc = "v_loop" /\ idx <= Len(db_hashes)
    /\ LET db_hash == db_hashes[idx]
           media_file == db_hash[1]
           generated_hash == generate_sha256_hash(media_file)
       IN IF ~isfile(media_file)
          THEN /\ corrupted' = Append(corrupted, <<media_file, db_hash[2], NotFound>>)
               /\ UNCHANGED <<okList, hashed>>
          ELSE /\ hashed' = hashed \cup {media_file}
               /\ IF generated_hash = db_hash[2]
                  THEN okList' = Append(okList, media_file) /\ UNCHANGED corrupted
                  ELSE /\ corrupted' = Append(corrupted,
                                  <<media_file, generated_hash, db_hash[2]>>)
                       /\ UNCHANGED okList
    /\ idx' = idx + 1
    /\ UNCHANGED <<fs, dbFile, rows, faults, pc, mode, q, media_files, db_hashes,
                   startRows, prev, exitCode, exitKind, directory>>

\* mutant: a record whose file is gone is passed over without a word
VerifyRecord_skip_missing ==
    /\ pc = "v_loop" /\ idx <= Len(db_hashes)
    /\ LET db_hash == db_hashes[idx]
           media_file == db_hash[1]
           generated_hash == generate_sha256_hash(media_file)
       IN IF ~isfile(media_file)
          THEN UNCHANGED <<corrupted, okList, hashed>>
          ELSE /\ hashed' = hashed \cup {media_file}
               /\ IF generated_hash = db_hash[2]
                  THEN okList' = Append(okList, media_file) /\ UNCHANGED corrupted
                  ELSE /\ corrupted' = Append(corrupted,
                                  <<media_file, db_hash[2], generated_hash>>)
                       /\ UNCHANGED okList
    /\ idx' = idx + 1
    /\ UNCHANGED <<fs, dbFile, rows, faults, pc, mode, q, media_files, db_hashes,
                   startRows, prev, exitCode, exitKind, directory>>

\* one record of the loop, lines 126-138
VerifyRecord ==
    /\ pc = "v_loop" /\ idx <= Len(db_hashes)
    /\ LET db_hash == db_hashes[idx]
           media_file == db_hash[1]
           generated_hash == generate_sha256_hash(media_file)
       IN IF ~isfile(media_file)
          THEN /\ corrupted' = Append(corrupted, <<media_file, db_hash[2], NotFound>>)
               /\ UNCHANGED <<okList, hashed>>
          ELSE /\ hashed' = hashed \cup {media_file}
               /\ IF generated_hash = db_hash[2]
                  THEN okList' = Append(okList, media_file) /\ UNCHANGED corrupted
                  ELSE /\ corrupted' = Append(corrupted,
                                  <<media_file, db_hash[2], generated_hash>>)
                       /\ UNCHANGED okList
    /\ idx' = idx + 1
    /\ UNCHANGED <<fs, dbFile, rows, faults, pc, mode, q, media_files, db_hashes,
                   startRows, prev, exitCode, exitKind, directory>>

\* lines 140-149
VerifyFinish ==
    /\ pc = "v_loop" /\ idx > Len(db_hashes)
    /\ IF corrupted # <<>> THEN Exit(1, "normal") ELSE Exit(0, "normal")
    /\ UNCHANGED <<fs, dbFile, rows, faults, mode, media_files, db_hashes, idx,
                   corrupted, okList, hashed, startRows, prev, directory>>

\* KeyboardInterrupt, lines 172-174: raised at any point of a run; a
\* statement not yet committed is rolled back by the with block, and what
\* the process held in memory is gone
Interrupt ==
    /\ pc # "idle"
    /\ Exit(1, "interrupt")
    /\ media_files' = <<>>
    /\ db_hashes' = <<>>
    /\ idx' = 0
    /\ corrupted' = <<>>
    /\ okList' = <<>>
    /\ hashed' = {}
    /\ UNCHANGED <<fs, dbFile, rows, faults, mode, startRows, prev, directory>>

-----------------------------------------------------------------------------
(* The environment, between two runs *)

Forgotten ==
    /\ pc' = "idle"
    /\ mode' = "none"
    /\ directory' = ""
    /\ q' = NoQuery
    /\ media_files' = <<>>
    /\ db_hashes' = <<>>
    /\ idx' = 0
    /\ corrupted' = <<>>
    /\ okList' = <<>>
    /\ hashed' = {}
    /\ startRows' = rows
    /\ prev' = "other"
    /\ exitCode' = -1
    /\ exitKind' = "none"

\* a media file is created or rewritten
WriteFile(path, k) ==
    /\ pc = "idle"
    /\ fs[path] # k
    /\ fs' = [fs EXCEPT ![path] = k]
    /\ Forgotten
    /\ UNCHANGED <<dbFile, rows, faults>>

\* a media file is deleted
DeleteFile(path) ==
    /\ pc = "idle"
    /\ fs[path] # 0
    /\ fs' = [fs EXCEPT ![path] = 0]
    /\ Forgotten
    /\ UNCHANGED <<dbFile, rows, faults>>

-----------------------------------------------------------------------------

Init ==
    /\ fs \in [MutablePaths -> 0..NumContents]
    /\ dbFile = "absent"
    /\ rows = {}
    /\ faults = 0
    /\ pc = "idle"
    /\ mode = "none"
    /\ directory = ""
    /\ q = NoQuery
    /\ media_files = <<>>
    /\ db_hashes = <<>>
    /\ idx = 0
    /\ corrupted = <<>>
    /\ okList = <<>>
    /\ hashed = {}
    /\ startRows = {}
    /\ prev = "other"
    /\ exitCode = -1
    /\ exitKind = "none"

Next ==
    \/ MainUsage
    \/ \E dir \in Dirs : GenerateStart(dir)
    \/ GenAfterCreate
    \/ GenWalk
    \/ GenLoop
    \/ GenAfterExist
    \/ GenAfterInsert
    \/ \E dir \in Dirs : VerifyStart(dir)
    \/ VerifyAfterGet
    \/ VerifyRecord
    \/ VerifyFinish
    \/ Connect
    \/ Execute
    \/ Interrupt
    \/ \E path \in MutablePaths, k \in 1..NumContents : WriteFile(path, k)
    \/ \E path \in MutablePaths : DeleteFile(path)

\* the program, its operator and the directory's owner
Spec == Init /\ [][Next]_vars

\* the same with a storage engine that can fail
NextFaults == Next \/ TransientFailure

SpecFaults == Init /\ [][NextFaults]_vars


-----------------------------------------------------------------------------
(* What the properties are stated with: the content of the tree itself,    *)
(* not what the program computed from it                                    *)

Range(s) == { s[i] : i \in 1..Len(s) }

\* SHA256 of the whole content of a media file
FullHash(path) == <<"sha256", Bytes(fs[path])>>

\* name = prefix . suffix for some prefix
HasSuffix(name, suffix) ==
    \E n \in 0..Len(name) : name = SubSeq(name, 1, n) \o suffix

IsMediaName(name) ==
    \/ HasSuffix(name, <<".", "m", "p", "4">>)
    \/ HasSuffix(name, <<".", "m", "k", "v">>)

\* the candidate files of the tree
Candidates == { p \in MutablePaths : fs[p] # 0 }

Recorded(rs) == { r[1] : r \in rs }

\* a stored record is corrupted: its file is missing or hashes differently
IsCorrupted(r) == fs[r[1]] = 0 \/ FullHash(r[1]) # r[2]

\* what a complete generate run adds to a store
Complete(rs) ==
    rs \cup { <<p, FullHash(p)>> : p \in Candidates \ Recorded(rs) }

GenerateDone == mode = "generate" /\ pc = "idle" /\ exitCode = 0

\* verify of the directory ran to its own end (it was not interrupted)
VerifyEnded ==
    /\ mode = "verify" /\ directory = "d"
    /\ pc = "idle" /\ exitKind \in {"normal", "crash"}

\* the records verify has been through
Processed == { db_hashes[i] : i \in 1..(idx - 1) }

-----------------------------------------------------------------------------
(* The claims *)

\* C1. Idempotence: a generate run that directly follows a completed generate
\* run over the unchanged directory leaves the store identical and hashes no
\* file.
C1_Idempotence ==
    (GenerateDone /\ prev = "gen_ok") => (rows = startRows /\ hashed = {})

\* C2. Monotonic growth: a generate run never removes or rewrites a record,
\* and a completed run has added exactly one record for every matching file
\* that had none.
C2_MonotonicGrowth ==
    /\ mode = "generate" =>
          /\ startRows \subseteq rows
          /\ \A r \in rows : \A r0 \in startRows : r[1] = r0[1] => r = r0
    /\ GenerateDone =>
          Recorded(rows) = Recorded(startRows) \cup Candidates

\* C3. Round trip: verify run directly after a completed generate, nothing
\* touched in between, reports OK for every stored record, reports no
\* corrupted file and exits 0.
C3_RoundTrip ==
    (VerifyEnded /\ prev = "gen_ok") =>
        /\ exitCode = 0
        /\ corrupted = <<>>
        /\ Recorded(rows) \subseteq Range(okList)

\* C4. Corruption detection: every stored record verify has been through
\* whose file exists with another hash is in the corrupted list with the
\* stored hash as expected and the recomputed hash as actual, and is not
\* reported OK; verify goes through every stored record.
C4_CorruptionDetected ==
    /\ (mode = "verify" /\ pc = "v_loop") => Range(db_hashes) = rows
    /\ mode = "verify" =>
          \A r \in Processed :
              (fs[r[1]] # 0 /\ FullHash(r[1]) # r[2]) =>
                  /\ <<r[1], r[2], FullHash(r[1])>> \in Range(corrupted)
                  /\ r[1] \notin Range(okList)

C4_Witness ==
    /\ VerifyEnded
    /\ \E r \in rows :
          /\ fs[r[1]] # 0 /\ FullHash(r[1]) # r[2]
          /\ <<r[1], r[2], FullHash(r[1])>> \in Range(corrupted)

\* C5. Missing file: every stored record verify has been through whose file
\* is gone is in the corrupted list with "File not found", its path was not
\* opened, and the loop went on: verify ends with every record of the list
\* classified.
C5_MissingFile ==
    /\ mode = "verify" =>
          \A r \in Processed :
              fs[r[1]] = 0 =>
                  /\ <<r[1], r[2], NotFound>> \in Range(corrupted)
                  /\ r[1] \notin hashed
                  /\ r[1] \notin Range(okList)
    /\ (mode = "verify" /\ pc = "v_loop") =>
          Len(corrupted) + Len(okList) = idx - 1
    /\ (VerifyEnded /\ exitKind = "normal" /\ idx > 0) =>
          Len(corrupted) + Len(okList) = Len(db_hashes)

\* a missing file was met first and the record after it was still checked
C5_Witness ==
    /\ VerifyEnded
    /\ Len(db_hashes) = 2
    /\ fs[db_hashes[1][1]] = 0
    /\ db_hashes[2][1] \in Range(okList)

\* C6. Exit code of verify: with the store file there, verify has been
\* through every stored record when it ends, and exits 0 iff no stored record
\* is corrupted, 1 otherwise.
C6_VerifyExitCode ==
    (VerifyEnded /\ dbFile # "absent") =>
        /\ Processed = rows
        /\ exitCode = (IF \E r \in rows : IsCorrupted(r) THEN 1 ELSE 0)

\* C7. Extension filter: every stored path, and every path ever opened for
\* hashing, has a name ending in .mp4 or .mkv; video.avi, foo.mp4x, clip.MP4,
\* b.txt, n.txt and hashmyfiles.db are never hashed and never stored.
C7_ExtensionFilter ==
    /\ \A r \in rows : IsMediaName(r[1].name)
    /\ \A p \in hashed : IsMediaName(p.name)
    /\ \A p \in FixedPaths \cup {DbPath} : p \notin hashed \cup Recorded(rows)

\* a run walked the tree, store file included, and recorded both media files
C7_Witness ==
    /\ GenerateDone
    /\ dbFile = "table"
    /\ hashed # {}
    /\ Recorded(rows) = MutablePaths

\* C8. Completeness: when generate exits 0, every file the walk found has a
\* record, and every record the run added holds the hash of the whole file.
C8_Completeness ==
    GenerateDone =>
        /\ Range(media_files) \subseteq Recorded(rows)
        /\ \A r \in rows \ startRows : r[2] = FullHash(r[1])

\* C9. A failed store operation looks like an empty result: the records stay,
\* no error leaves the orchestrator, and verify ends after a failed ListAll
\* as it does on an empty store, with no corrupted file and exit 0.
C9_FailureLooksEmpty ==
    /\ exitKind # "crash"
    /\ (pc = "v_get" /\ q.stage = "done" /\ q.none) => rows = startRows
    /\ (VerifyEnded /\ dbFile # "absent" /\ idx = 0) => exitCode = 0

\* C10. Resumability: an interrupt ends the run with status 1 and leaves only
\* complete records; the generate run after an interrupted generate run, the
\* directory unchanged, hashes only files without a record and ends with the
\* store an uninterrupted run would have left.
C10_Resumable ==
    /\ exitKind = "interrupt" => exitCode = 1
    /\ (mode = "generate" /\ exitKind = "interrupt") =>
          /\ startRows \subseteq rows
          /\ \A r \in rows \ startRows : r[2] = FullHash(r[1])
    /\ (GenerateDone /\ prev = "gen_int") =>
          /\ hashed \cap Recorded(startRows) = {}
          /\ rows = Complete(startRows)

=============================================================================
